---- MODULE Spec2Model ----
(***************************************************************************)
(* Model of the RandomX MSR tuning controller (crypto/randomx_msr.cpp),    *)
(* the MSR register accessor (crypto/msr.cpp, crypto/msr_item.h) and the   *)
(* RandomX crash recovery frame (crypto/randomx_fix.cpp), Linux x86_64     *)
(* build.                                                                  *)
(*                                                                         *)
(* A 64-bit register value is the set of its set bit positions (0..63), so *)
(* that &, | and ~ are exactly set intersection, union and complement.     *)
(* A 32-bit register index is the pair <<high 16 bits, low 16 bits>>.      *)
(***************************************************************************)
EXTENDS Integers, Sequences, FiniteSets, TLC

VARIABLES
    hw,              \* the host: CPUID answers and msr module availability
    regs,            \* regs[cpu][reg]: contents of the MSRs of each logical CPU
    msr_instance,    \* msr.cpp: static std::shared_ptr<Msr> msr_instance
    m_enabled,       \* RandomX_Msr::m_enabled
    m_initialized,   \* RandomX_Msr::m_initialized
    m_cache_qos,     \* RandomX_Msr::m_cache_qos
    original_msrs,   \* randomx_msr.cpp: static MsrItems original_msrs
    opLog,           \* history: device / cpuid operations of the last call
    lastCall,        \* history: the last call and what it returned
    pre,             \* history: controller state and registers before the last call
    initSnap,        \* history: the last Init call that really ran
    calls,           \* number of controller calls made so far
    direct,          \* history: the last direct call of the accessor or of CPU detection
    racer,           \* racer[t]: where thread t is in its call of RandomX_Msr::Init
    fix_initialized,         \* RandomX_Fix::m_initialized
    disposition,             \* process signal dispositions of SIGSEGV / SIGILL
    exception_frame_active,  \* thread_local bool exception_frame_active
    exception_env,           \* thread_local sigjmp_buf exception_env
    alive,                   \* the process has not been terminated by a signal
    fixLog,                  \* history: sigaction / signal / raise / jump calls of the last step
    fixCall,                 \* history: the last crash-recovery-frame step
    armed,                   \* history: threads that called SetupMainLoopExceptionFrame
    installed,               \* history: successful sigaction calls per signal since the last Remove
    arming,                  \* arming[t]: where thread t is in its call of SetupMainLoopExceptionFrame
    steps                    \* number of crash-recovery-frame steps made so far

msrVars == <<hw, regs, msr_instance, m_enabled, m_initialized, m_cache_qos,
             original_msrs, opLog, lastCall, pre, initSnap, calls, direct,
             racer>>
fixVars == <<fix_initialized, disposition, exception_frame_active, exception_env,
             alive, fixLog, fixCall, armed, installed, arming, steps>>
vars == <<msrVars, fixVars>>

(***************************************************************************)
(* Bounds                                                                  *)
(***************************************************************************)
NumCPUs == 2
NumThreads == 2
MaxCalls == 3
MaxSteps == 4

CPUs == 0..(NumCPUs - 1)
Threads == 1..NumThreads

\* msr.cpp GetCPUList: 0, 1, ..., hardware_concurrency()-1 in ascending order
GetCPUList == [i \in 1..NumCPUs |-> i - 1]

(***************************************************************************)
(* msr_item.h                                                              *)
(***************************************************************************)
Bits == 0..63
kNoMask == Bits

MsrItem(reg, value, mask) == [reg |-> reg, value |-> value, mask |-> mask]
MsrItemDefault == MsrItem(<<0, 0>>, {}, kNoMask)
isValid(item) == item.reg[1] > 0 \/ item.reg[2] > 0

\* the merge with the old and the new value exchanged
maskedValue_Exchanged(old_value, new_value, mask) ==
    (old_value \cap mask) \cup (new_value \cap (Bits \ mask))

maskedValue(old_value, new_value, mask) ==
    (new_value \cap mask) \cup (old_value \cap (Bits \ mask))

(***************************************************************************)
(* Register indices                                                        *)
(***************************************************************************)
REG_C0011020 == <<49153, 4128>>
REG_C0011021 == <<49153, 4129>>
REG_C0011022 == <<49153, 4130>>
REG_C001102B == <<49153, 4139>>
REG_1A4 == <<0, 420>>
REG_C8F == <<0, 3215>>
REG_C91 == <<0, 3217>>

QosRegs == {REG_C8F, REG_C91}
AllRegs == {REG_C0011020, REG_C0011021, REG_C0011022, REG_C001102B, REG_1A4} \cup QosRegs

\* 1ULL << 32
COS1 == {32}

(***************************************************************************)
(* randomx_msr.cpp: enums and the preset table                             *)
(***************************************************************************)
CPU_VENDOR_UNKNOWN == 0
CPU_VENDOR_AMD == 1
CPU_VENDOR_INTEL == 2

AMD_UNKNOWN == 0
AMD_RYZEN_17H == 1
AMD_RYZEN_19H == 2
AMD_RYZEN_ZEN4 == 3
AMD_RYZEN_ZEN5 == 4

MSR_MOD_NONE == 0
MSR_MOD_RYZEN_17H == 1
MSR_MOD_RYZEN_19H == 2
MSR_MOD_RYZEN_ZEN4 == 3
MSR_MOD_RYZEN_ZEN5 == 4
MSR_MOD_INTEL == 5
MSR_MOD_CUSTOM == 6
MSR_MOD_MAX == 7

msrPresets ==
    [mod \in 0..(MSR_MOD_MAX - 1) |->
        CASE mod = MSR_MOD_RYZEN_17H ->
                << MsrItem(REG_C0011020, {}, kNoMask),
                   MsrItem(REG_C0011021, {6}, Bits \ {5}),
                   MsrItem(REG_C0011022, {16, 20, 22, 24}, kNoMask),
                   MsrItem(REG_C001102B, {1, 2, 4, 10, 11, 14, 15, 29}, kNoMask) >>
          [] mod = MSR_MOD_RYZEN_19H ->
                << MsrItem(REG_C0011020, {43, 46, 50}, kNoMask),
                   MsrItem(REG_C0011021, {6, 33, 50, 51, 52}, Bits \ {5}),
                   MsrItem(REG_C0011022, {16, 17, 18, 20, 22, 24, 34, 62, 63}, kNoMask),
                   MsrItem(REG_C001102B, {4, 10, 11, 14, 15, 29}, kNoMask) >>
          [] mod \in {MSR_MOD_RYZEN_ZEN4, MSR_MOD_RYZEN_ZEN5} ->
                << MsrItem(REG_C0011020, {46, 50}, kNoMask),
                   MsrItem(REG_C0011021, {6, 50}, Bits \ {5}),
                   MsrItem(REG_C0011022, {16, 17, 18, 20, 22, 24, 34, 55, 57, 58, 63}, kNoMask),
                   MsrItem(REG_C001102B, {4, 10, 11, 14, 15, 22, 29}, kNoMask) >>
          [] mod = MSR_MOD_INTEL ->
                << MsrItem(REG_1A4, {0, 1, 2, 3}, kNoMask) >>
          [] OTHER -> << >> ]

(***************************************************************************)
(* The threaded record g holds what a call can change besides the          *)
(* controller flags: g.regs, g.inst (msr_instance), g.original_msrs and    *)
(* g.log (the operations performed so far by the call).                    *)
(* A plan says which device operations fail during the call: plan.rd and   *)
(* plan.wr are sets of <<cpu, reg>> whose pread / pwrite (or open) fails.  *)
(* hw.rejectZero says that the hardware rejects an all-zero 0xC91.         *)
(***************************************************************************)
LogOp(g, op, cpu, reg, value, ok) ==
    [g EXCEPT !.log = Append(@, [op |-> op, cpu |-> cpu, reg |-> reg,
                                 value |-> value, ok |-> ok])]

\* msr.cpp msr_open: a negative cpu means the first logical CPU
msr_open(cpu) ==
    IF cpu < 0
    THEN (IF Len(GetCPUList) = 0 THEN 0 ELSE Head(GetCPUList))
    ELSE cpu

\* Msr::rdmsr
rdmsr(g, reg, cpu, plan) ==
    LET c == msr_open(cpu)
        ok == <<c, reg>> \notin plan.rd
        v == IF ok THEN g.regs[c][reg] ELSE {}
    IN [ok |-> ok, value |-> v, g |-> LogOp(g, "rdmsr", c, reg, v, ok)]

\* Msr::wrmsr
wrmsr(g, reg, value, cpu, plan) ==
    LET c == msr_open(cpu)
        ok == /\ <<c, reg>> \notin plan.wr
              /\ ~(hw.rejectZero /\ reg = REG_C91 /\ value = {})
        g1 == IF ok THEN [g EXCEPT !.regs[c][reg] = value] ELSE g
    IN [ok |-> ok, g |-> LogOp(g1, "wrmsr", c, reg, value, ok)]

\* Msr::MsrPrivate constructor: msr_allow_writes() || msr_modprobe()
MsrPrivate_available == hw.allow_writes \/ hw.modprobe

\* Msr::get
Msr_get(g) ==
    IF g.inst = "null"
    THEN LogOp([g EXCEPT !.inst = IF MsrPrivate_available THEN "available" ELSE "unavailable"],
               "construct", -1, <<0, 0>>, {}, MsrPrivate_available)
    ELSE g

\* Msr::isAvailable
isAvailable(g) == g.inst = "available"

\* Msr::read
Msr_read(g, reg, cpu, plan) ==
    LET r == rdmsr(g, reg, cpu, plan)
    IN [item |-> IF r.ok THEN MsrItem(reg, r.value, kNoMask) ELSE MsrItemDefault,
        g |-> r.g]

\* Msr::write writing the new bits over a zero old value when the read for
\* masking fails
Msr_write_IgnoreReadFailure(g, reg, value, cpu, mask, plan) ==
    IF ~isAvailable(g)
    THEN [ok |-> FALSE, g |-> g]
    ELSE IF mask # kNoMask
         THEN LET r == rdmsr(g, reg, cpu, plan)
              IN wrmsr(r.g, reg, maskedValue(r.value, value, mask), cpu, plan)
         ELSE wrmsr(g, reg, value, cpu, plan)

\* Msr::write(reg, value, cpu, mask, verbose)
Msr_write(g, reg, value, cpu, mask, plan) ==
    IF ~isAvailable(g)
    THEN [ok |-> FALSE, g |-> g]
    ELSE IF mask # kNoMask
         THEN LET r == rdmsr(g, reg, cpu, plan)
              IN IF ~r.ok
                 THEN [ok |-> FALSE, g |-> r.g]
                 ELSE wrmsr(r.g, reg, maskedValue(r.value, value, mask), cpu, plan)
         ELSE wrmsr(g, reg, value, cpu, plan)

\* Msr::write(item, cpu, verbose)
Msr_write_item(g, item, cpu, plan) ==
    Msr_write(g, item.reg, item.value, cpu, item.mask, plan)

(***************************************************************************)
(* randomx_msr.cpp: CPU detection                                          *)
(***************************************************************************)
\* cpuid has no failure mode; the log entry records the leaf that was read
LogCpuid(g, leaf) == LogOp(g, "cpuid", -1, <<0, leaf>>, {}, TRUE)

\* DetectCPUVendor: the strcmp chain on the 12-byte vendor string
VendorOf(vendor) ==
    IF vendor = "AuthenticAMD" THEN CPU_VENDOR_AMD
    ELSE IF vendor = "GenuineIntel" THEN CPU_VENDOR_INTEL
    ELSE CPU_VENDOR_UNKNOWN

DetectCPUVendor(g) == [vendor |-> VendorOf(hw.vendor), g |-> LogCpuid(g, 0)]

\* family = ((eax >> 8) & 0xF) + ((eax >> 20) & 0xFF)
FamilyOfEax(eax) == eax.base_family + eax.ext_family
\* model = ((eax >> 4) & 0xF) | ((eax >> 12) & 0xF0)
ModelOfEax(eax) == eax.base_model + 16 * eax.ext_model

\* the classification with model 0x6F counted as Zen5
AMDFamilyOf_Zen5From6F(family, model) ==
    IF family = 23 THEN AMD_RYZEN_17H
    ELSE IF family = 25
         THEN (IF model >= 16 /\ model < 111 THEN AMD_RYZEN_ZEN4
               ELSE IF model >= 111 THEN AMD_RYZEN_ZEN5
               ELSE AMD_RYZEN_19H)
         ELSE AMD_UNKNOWN

\* DetectAMDFamily: the classification of (family, model)
AMDFamilyOf(family, model) ==
    IF family = 23 THEN AMD_RYZEN_17H
    ELSE IF family = 25
         THEN (IF model >= 16 /\ model < 112 THEN AMD_RYZEN_ZEN4
               ELSE IF model >= 112 THEN AMD_RYZEN_ZEN5
               ELSE AMD_RYZEN_19H)
         ELSE AMD_UNKNOWN

DetectAMDFamily(g) ==
    [family |-> AMDFamilyOf(FamilyOfEax(hw.eax), ModelOfEax(hw.eax)), g |-> LogCpuid(g, 1)]

\* HasCatL3: CPUID leaf 0x10, EBX bit 1
HasCatL3(g) == [has |-> hw.catl3, g |-> LogCpuid(g, 16)]

\* DetectMsrMod: the switch on the AMD family
ModOfFamily(family) ==
    CASE family = AMD_RYZEN_17H -> MSR_MOD_RYZEN_17H
      [] family = AMD_RYZEN_19H -> MSR_MOD_RYZEN_19H
      [] family = AMD_RYZEN_ZEN4 -> MSR_MOD_RYZEN_ZEN4
      [] family = AMD_RYZEN_ZEN5 -> MSR_MOD_RYZEN_ZEN5
      [] OTHER -> MSR_MOD_NONE

\* DetectMsrMod with the Intel preset as the fallback for an unknown vendor
DetectMsrMod_DefaultIntel(g) ==
    LET v == DetectCPUVendor(g)
    IN IF v.vendor = CPU_VENDOR_AMD
       THEN LET f == DetectAMDFamily(v.g)
            IN [mod |-> ModOfFamily(f.family), g |-> f.g]
       ELSE [mod |-> MSR_MOD_INTEL, g |-> v.g]

\* DetectMsrMod
DetectMsrMod(g) ==
    LET v == DetectCPUVendor(g)
    IN IF v.vendor = CPU_VENDOR_AMD
       THEN LET f == DetectAMDFamily(v.g)
            IN [mod |-> ModOfFamily(f.family), g |-> f.g]
       ELSE IF v.vendor = CPU_VENDOR_INTEL
            THEN [mod |-> MSR_MOD_INTEL, g |-> v.g]
            ELSE [mod |-> MSR_MOD_NONE, g |-> v.g]

(***************************************************************************)
(* randomx_msr.cpp: ApplyMsrPreset                                         *)
(***************************************************************************)
\* the backup loop going on to the next register after a failed read
RECURSIVE BackupLoop_SkipFailed(_, _, _, _)
BackupLoop_SkipFailed(g, preset, i, plan) ==
    IF i > Len(preset)
    THEN [ok |-> TRUE, g |-> g]
    ELSE LET r == Msr_read(g, preset[i].reg, -1, plan)
         IN IF ~isValid(r.item)
            THEN BackupLoop_SkipFailed(r.g, preset, i + 1, plan)
            ELSE BackupLoop_SkipFailed([r.g EXCEPT !.original_msrs = Append(@, r.item)],
                                       preset, i + 1, plan)

\* the backup loop: one read per preset register on the default CPU; a
\* failed read clears the partial backup and ends the loop
RECURSIVE BackupLoop(_, _, _, _)
BackupLoop(g, preset, i, plan) ==
    IF i > Len(preset)
    THEN [ok |-> TRUE, g |-> g]
    ELSE LET r == Msr_read(g, preset[i].reg, -1, plan)
         IN IF ~isValid(r.item)
            THEN [ok |-> FALSE, g |-> [r.g EXCEPT !.original_msrs = << >>]]
            ELSE BackupLoop([r.g EXCEPT !.original_msrs = Append(@, r.item)],
                            preset, i + 1, plan)

\* for (const auto& item : items) if (!msr->write(item, cpu, false)) return false;
RECURSIVE WriteItems(_, _, _, _, _)
WriteItems(g, items, i, cpu, plan) ==
    IF i > Len(items)
    THEN [ok |-> TRUE, g |-> g]
    ELSE LET w == Msr_write_item(g, items[i], cpu, plan)
         IN IF ~w.ok THEN w ELSE WriteItems(w.g, items, i + 1, cpu, plan)

\* the cache QoS part with the two classes of service exchanged
ApplyCacheQos_Swapped(g, cpu, cache_enabled, plan) ==
    IF cpu \notin cache_enabled
    THEN Msr_write(g, REG_C8F, {}, cpu, kNoMask, plan)
    ELSE LET w0 == Msr_write(g, REG_C91, {}, cpu, kNoMask, plan)
             w1 == IF w0.ok THEN w0 ELSE Msr_write(w0.g, REG_C91, {0}, cpu, kNoMask, plan)
         IN IF ~w1.ok THEN w1 ELSE Msr_write(w1.g, REG_C8F, COS1, cpu, kNoMask, plan)

\* the cache QoS part of the apply callback
ApplyCacheQos(g, cpu, cache_enabled, plan) ==
    IF cpu \in cache_enabled
    THEN Msr_write(g, REG_C8F, {}, cpu, kNoMask, plan)
    ELSE LET w0 == Msr_write(g, REG_C91, {}, cpu, kNoMask, plan)
             w1 == IF w0.ok THEN w0 ELSE Msr_write(w0.g, REG_C91, {0}, cpu, kNoMask, plan)
         IN IF ~w1.ok THEN w1 ELSE Msr_write(w1.g, REG_C8F, COS1, cpu, kNoMask, plan)

\* the lambda ApplyMsrPreset hands to Msr::write(Callback&&)
ApplyCallback(g, cpu, preset, cache_enabled, qos, plan) ==
    LET p == WriteItems(g, preset, 1, cpu, plan)
    IN IF ~p.ok THEN p
       ELSE IF qos THEN ApplyCacheQos(p.g, cpu, cache_enabled, plan)
       ELSE p

\* the two lambdas handed to Msr::write(Callback&&): ApplyMsrPreset's (apply)
\* and Destroy's (restore)
Callback(cb, g, cpu, plan) ==
    IF cb.kind = "apply"
    THEN ApplyCallback(g, cpu, cb.preset, cb.cache_enabled, cb.qos, plan)
    ELSE WriteItems(g, cb.items, 1, cpu, plan)

\* the broadcast going on to the remaining CPUs after a failed callback
RECURSIVE Msr_write_each_BestEffort(_, _, _, _)
Msr_write_each_BestEffort(g, cb, i, plan) ==
    IF i > Len(GetCPUList)
    THEN [ok |-> TRUE, g |-> g]
    ELSE LET r == Callback(cb, g, GetCPUList[i], plan)
             rest == Msr_write_each_BestEffort(r.g, cb, i + 1, plan)
         IN [ok |-> r.ok /\ rest.ok, g |-> rest.g]

\* Msr::write(Callback&&): the callback for each logical CPU in list order,
\* from the i-th on, stopping at the first callback that returns false
RECURSIVE Msr_write_each(_, _, _, _)
Msr_write_each(g, cb, i, plan) ==
    IF i > Len(GetCPUList)
    THEN [ok |-> TRUE, g |-> g]
    ELSE LET r == Callback(cb, g, GetCPUList[i], plan)
         IN IF ~r.ok
            THEN [ok |-> FALSE, g |-> r.g]
            ELSE Msr_write_each(r.g, cb, i + 1, plan)

\* ApplyMsrPreset giving up when cache QoS was requested and cannot be set up
ApplyMsrPreset_AbortOnProbe(g, preset, thread_affinities, cache_qos, plan) ==
    LET g0 == Msr_get(g)
    IN IF ~isAvailable(g0)
       THEN [ok |-> FALSE, g |-> g0]
       ELSE LET b == BackupLoop([g0 EXCEPT !.original_msrs = << >>], preset, 1, plan)
            IN IF ~b.ok
               THEN [ok |-> FALSE, g |-> b.g]
               ELSE LET cache_qos_disabled == thread_affinities = {}
                        probe == cache_qos /\ ~cache_qos_disabled
                        h == IF probe THEN HasCatL3(b.g) ELSE [has |-> TRUE, g |-> b.g]
                    IN IF cache_qos /\ (cache_qos_disabled \/ ~h.has)
                       THEN [ok |-> FALSE, g |-> h.g]
                       ELSE Msr_write_each(h.g,
                               [kind |-> "apply", preset |-> preset,
                                cache_enabled |-> thread_affinities, qos |-> cache_qos],
                               1, plan)

ApplyMsrPreset(g, preset, thread_affinities, cache_qos, plan) ==
    LET g0 == Msr_get(g)
    IN IF ~isAvailable(g0)
       THEN [ok |-> FALSE, g |-> g0]
       ELSE LET b == BackupLoop([g0 EXCEPT !.original_msrs = << >>], preset, 1, plan)
            IN IF ~b.ok
               THEN [ok |-> FALSE, g |-> b.g]
               ELSE LET cache_qos_disabled == thread_affinities = {}
                        probe == cache_qos /\ ~cache_qos_disabled
                        h == IF probe THEN HasCatL3(b.g) ELSE [has |-> TRUE, g |-> b.g]
                        qos == cache_qos /\ h.has /\ ~cache_qos_disabled
                    IN Msr_write_each(h.g,
                          [kind |-> "apply", preset |-> preset,
                           cache_enabled |-> thread_affinities, qos |-> qos],
                          1, plan)

(***************************************************************************)
(* RandomX_Msr::Init, RandomX_Msr::Destroy, RandomX_Msr::IsEnabled         *)
(***************************************************************************)
\* the globals a call works on, with an empty operation log
Globals ==
    [regs |-> regs, inst |-> msr_instance, original_msrs |-> original_msrs, log |-> << >>]

\* RandomX_Msr::Init when m_initialized is set: return m_enabled
InitAgain ==
    [ret |-> m_enabled, initialized |-> m_initialized, enabled |-> m_enabled,
     cache_qos |-> m_cache_qos, g |-> Globals, ran |-> FALSE]

\* RandomX_Msr::Init after the m_initialized test: the return value, the
\* three flags and the globals
InitBody(thread_affinities, enable_cache_qos, plan) ==
    LET d == DetectMsrMod(Globals)
        off == [ret |-> FALSE, initialized |-> TRUE, enabled |-> FALSE,
                cache_qos |-> enable_cache_qos, g |-> d.g, ran |-> TRUE]
    IN IF d.mod = MSR_MOD_NONE \/ d.mod >= MSR_MOD_MAX
       THEN off
       ELSE IF Len(msrPresets[d.mod]) = 0
            THEN off
            ELSE LET a == ApplyMsrPreset(d.g, msrPresets[d.mod], thread_affinities,
                                         enable_cache_qos, plan)
                 IN [off EXCEPT !.ret = a.ok, !.enabled = a.ok, !.g = a.g]

\* RandomX_Msr::Destroy when it returns at its first test
DestroyNothing ==
    [initialized |-> m_initialized, enabled |-> m_enabled, g |-> Globals, ran |-> FALSE]

\* Destroy leaving m_enabled as it was
DestroyBody_KeepEnabled(plan) ==
    LET g0 == Msr_get(Globals)
    IN IF ~isAvailable(g0)
       THEN [DestroyNothing EXCEPT !.g = g0]
       ELSE LET w == Msr_write_each(g0, [kind |-> "restore", items |-> g0.original_msrs],
                                    1, plan)
            IN [initialized |-> FALSE, enabled |-> m_enabled,
                g |-> [w.g EXCEPT !.original_msrs = << >>], ran |-> TRUE]

\* Destroy returning every CPU to class of service 0 after the backup items
DestroyBody_ResetCacheQos(plan) ==
    LET g0 == Msr_get(Globals)
    IN IF ~isAvailable(g0)
       THEN [DestroyNothing EXCEPT !.g = g0]
       ELSE LET w == Msr_write_each(g0,
                        [kind |-> "restore",
                         items |-> Append(g0.original_msrs,
                                          MsrItem(REG_C8F, {}, kNoMask))],
                        1, plan)
            IN [initialized |-> FALSE, enabled |-> FALSE,
                g |-> [w.g EXCEPT !.original_msrs = << >>], ran |-> TRUE]

\* RandomX_Msr::Destroy after its first test
DestroyBody(plan) ==
    LET g0 == Msr_get(Globals)
    IN IF ~isAvailable(g0)
       THEN [DestroyNothing EXCEPT !.g = g0]
       ELSE LET w == Msr_write_each(g0, [kind |-> "restore", items |-> g0.original_msrs],
                                    1, plan)
            IN [initialized |-> FALSE, enabled |-> FALSE,
                g |-> [w.g EXCEPT !.original_msrs = << >>], ran |-> TRUE]

IsEnabled == m_enabled

(***************************************************************************)
(* The hosts, the initial register contents and the failure plans checked  *)
(***************************************************************************)
\* CPUID leaf 1 EAX fields of the identities checked: family 0x17 model 0x01
\* and family 0x15 model 0x02
EaxSet ==
    { [base_family |-> 15, ext_family |-> 8, base_model |-> 1, ext_model |-> 0],
      [base_family |-> 15, ext_family |-> 6, base_model |-> 2, ext_model |-> 0] }

Identities ==
    { [vendor |-> "AuthenticAMD", eax |-> e] : e \in EaxSet }
    \cup { [vendor |-> "GenuineIntel", eax |-> CHOOSE e \in EaxSet : e.ext_family = 6],
           [vendor |-> "Other", eax |-> CHOOSE e \in EaxSet : e.ext_family = 6] }

Host(id, catl3, rejectZero, allow_writes, modprobe) ==
    [vendor |-> id.vendor, eax |-> id.eax, catl3 |-> catl3, rejectZero |-> rejectZero,
     allow_writes |-> allow_writes, modprobe |-> modprobe]

\* Every identity without CAT L3, in each way the msr module can be enabled
\* or not (modprobe is only run when allow_writes failed), and every identity
\* with CAT L3, accepting or rejecting an all-zero capacity mask
Hosts ==
    { Host(id, FALSE, FALSE, a[1], a[2]) :
        id \in Identities, a \in {<<TRUE, FALSE>>, <<FALSE, TRUE>>, <<FALSE, FALSE>>} }
    \cup { Host(id, TRUE, z, TRUE, FALSE) : id \in Identities, z \in BOOLEAN }

\* every register of the first CPU starts as v0, of the other CPUs as v1
InitRegs(v0, v1) == [c \in CPUs |-> [r \in AllRegs |-> IF c = 0 THEN v0 ELSE v1]]

\* homogeneous and heterogeneous initial contents
InitProfiles == { InitRegs({5, 63}, {5, 63}), InitRegs({5, 63}, {}) }

\* the registers of the host's preset and the cache QoS registers: a fault
\* is placed on a register the host's tuning can address
HostRegs ==
    LET mod == IF VendorOf(hw.vendor) = CPU_VENDOR_INTEL THEN MSR_MOD_INTEL
               ELSE MSR_MOD_RYZEN_17H
    IN {msrPresets[mod][i].reg : i \in 1..Len(msrPresets[mod])} \cup QosRegs
Points == CPUs \X HostRegs

\* the arguments of Init: cache QoS requested with every affinity set, and
\* not requested with an empty and a non-empty one
InitArgs ==
    { <<a, TRUE>> : a \in SUBSET CPUs } \cup { <<{}, FALSE>>, <<{0}, FALSE>> }
NoFault == [rd |-> {}, wr |-> {}]
\* at most one failing device operation per call
Plans ==
    {NoFault}
    \cup { [rd |-> {p}, wr |-> {}] : p \in Points }
    \cup { [rd |-> {}, wr |-> {p}] : p \in Points }

Signals == {"SIGSEGV", "SIGILL"}

\* no direct call made yet
NoDirect ==
    [op |-> "none", reg |-> <<0, 0>>, value |-> {}, cpu |-> -1, mask |-> kNoMask,
     ok |-> FALSE, item |-> MsrItemDefault, vendor |-> CPU_VENDOR_UNKNOWN,
     family |-> AMD_UNKNOWN, mod |-> MSR_MOD_NONE]

\* a thread that is not in SetupMainLoopExceptionFrame; installs counts the
\* calls in which the thread made both sigaction calls with success
NotArming == [pc |-> "idle", installs |-> 0]

\* a thread that has not called Init
NotCalling ==
    [pc |-> "idle", thread_affinities |-> {}, enable_cache_qos |-> FALSE,
     ret |-> FALSE, ran |-> FALSE]

Snapshot == [m_initialized |-> m_initialized, m_enabled |-> m_enabled,
             original_msrs |-> original_msrs, regs |-> regs]

InitMsrOn(hosts, profiles) ==
    /\ hw \in hosts
    /\ regs \in profiles
    /\ msr_instance = "null"
    /\ m_enabled = FALSE
    /\ m_initialized = FALSE
    /\ m_cache_qos = FALSE
    /\ original_msrs = << >>
    /\ opLog = << >>
    /\ lastCall = [op |-> "none", ret |-> FALSE, ran |-> FALSE]
    /\ pre = [m_initialized |-> FALSE, m_enabled |-> FALSE,
              original_msrs |-> << >>, regs |-> regs]
    /\ initSnap = [valid |-> FALSE, regs |-> regs, thread_affinities |-> {},
                   enable_cache_qos |-> FALSE, ret |-> FALSE, log |-> << >>]
    /\ calls = 0
    /\ direct = NoDirect
    /\ racer = [t \in Threads |-> NotCalling]

InitMsr == InitMsrOn(Hosts, InitProfiles)

InitFix ==
    /\ fix_initialized = FALSE
    /\ disposition = [s \in Signals |-> "SIG_DFL"]
    /\ exception_frame_active = [t \in Threads |-> FALSE]
    /\ exception_env = [t \in Threads |-> "unset"]
    /\ alive = TRUE
    /\ fixLog = << >>
    /\ fixCall = [op |-> "none", thread |-> 0, sig |-> "none", outcome |-> "none",
                  handler |-> FALSE, active |-> FALSE, wasArmed |-> FALSE,
                  wasInitialized |-> FALSE]
    /\ armed = {}
    /\ installed = [s \in Signals |-> 0]
    /\ arming = [t \in Threads |-> NotArming]
    /\ steps = 0

Init == InitMsr /\ InitFix

(***************************************************************************)
(* The controller's calls.  Which device operations fail is the            *)
(* environment's choice, made where the call starts to use the device.     *)
(***************************************************************************)
InitReturns(thread_affinities, enable_cache_qos, r) ==
    /\ m_initialized' = r.initialized
    /\ m_enabled' = r.enabled
    /\ m_cache_qos' = r.cache_qos
    /\ regs' = r.g.regs
    /\ msr_instance' = r.g.inst
    /\ original_msrs' = r.g.original_msrs
    /\ opLog' = r.g.log
    /\ lastCall' = [op |-> "Init", ret |-> r.ret, ran |-> r.ran]
    /\ initSnap' = IF r.ran
                   THEN [valid |-> TRUE, regs |-> regs,
                         thread_affinities |-> thread_affinities,
                         enable_cache_qos |-> enable_cache_qos,
                         ret |-> r.ret, log |-> r.g.log]
                   ELSE initSnap
    /\ pre' = Snapshot
    /\ calls' = calls + 1
    /\ UNCHANGED <<hw, direct, racer, fixVars>>

\* Init testing m_enabled where the code tests m_initialized
RandomX_Msr_Init_EnabledGuard(thread_affinities, enable_cache_qos) ==
    /\ calls < MaxCalls
    /\ IF m_enabled
       THEN InitReturns(thread_affinities, enable_cache_qos, InitAgain)
       ELSE \E plan \in Plans :
                InitReturns(thread_affinities, enable_cache_qos,
                            InitBody(thread_affinities, enable_cache_qos, plan))

RandomX_Msr_Init(thread_affinities, enable_cache_qos) ==
    /\ calls < MaxCalls
    /\ IF m_initialized
       THEN InitReturns(thread_affinities, enable_cache_qos, InitAgain)
       ELSE \E plan \in Plans :
                InitReturns(thread_affinities, enable_cache_qos,
                            InitBody(thread_affinities, enable_cache_qos, plan))

DestroyReturns(r) ==
    /\ m_initialized' = r.initialized
    /\ m_enabled' = r.enabled
    /\ regs' = r.g.regs
    /\ msr_instance' = r.g.inst
    /\ original_msrs' = r.g.original_msrs
    /\ opLog' = r.g.log
    /\ lastCall' = [op |-> "Destroy", ret |-> FALSE, ran |-> r.ran]
    /\ pre' = Snapshot
    /\ calls' = calls + 1
    /\ UNCHANGED <<hw, m_cache_qos, initSnap, direct, racer, fixVars>>

\* Destroy without its first test
RandomX_Msr_Destroy_NoGuard ==
    /\ calls < MaxCalls
    /\ \E plan \in Plans : DestroyReturns(DestroyBody(plan))

RandomX_Msr_Destroy ==
    /\ calls < MaxCalls
    /\ IF ~m_initialized \/ Len(original_msrs) = 0
       THEN DestroyReturns(DestroyNothing)
       ELSE \E plan \in Plans : DestroyReturns(DestroyBody(plan))

Next ==
    \/ \E a \in InitArgs : RandomX_Msr_Init(a[1], a[2])
    \/ RandomX_Msr_Destroy

Spec == Init /\ [][Next]_vars

(***************************************************************************)
(* msr.cpp: the accessor called directly (Msr::get, Msr::read, Msr::write) *)
(***************************************************************************)
\* the register, the values and the masks of the direct calls checked
AccRegs == {REG_C0011021}
AccValues == SUBSET {5, 63}
AccMasks == {kNoMask, Bits \ {5}, {5}, {}}
AccCpus == {-1} \cup CPUs

\* the device operation of a direct call succeeds, or its pread fails, or
\* its pwrite fails
AccPlans(reg, cpu) ==
    {NoFault,
     [rd |-> {<<msr_open(cpu), reg>>}, wr |-> {}],
     [rd |-> {}, wr |-> {<<msr_open(cpu), reg>>}]}

\* one host identity in each way the msr module can be enabled or not
AccHosts ==
    { Host([vendor |-> "Other", eax |-> CHOOSE e \in EaxSet : e.ext_family = 6],
           FALSE, FALSE, a[1], a[2]) :
        a \in {<<TRUE, FALSE>>, <<FALSE, TRUE>>, <<FALSE, FALSE>>} }
AccProfiles == { InitRegs(v0, v1) : v0 \in AccValues, v1 \in AccValues }

InitAccessor ==
    /\ InitMsrOn(AccHosts, AccProfiles)
    /\ InitFix

\* what a direct call leaves behind
DirectReturns(d, g) ==
    /\ direct' = d
    /\ regs' = g.regs
    /\ msr_instance' = g.inst
    /\ opLog' = g.log
    /\ pre' = Snapshot
    /\ calls' = calls + 1
    /\ UNCHANGED <<hw, m_enabled, m_initialized, m_cache_qos, original_msrs,
                   lastCall, initSnap, racer, fixVars>>

\* Msr::get()
Msr_get_call ==
    /\ calls < MaxCalls
    /\ LET g == Msr_get(Globals)
       IN DirectReturns([NoDirect EXCEPT !.op = "get", !.ok = isAvailable(g)], g)

\* Msr::get()->read(reg, cpu) on the constructed accessor
Msr_read_call(reg, cpu) ==
    /\ calls < MaxCalls
    /\ msr_instance # "null"
    /\ \E plan \in AccPlans(reg, cpu) :
          LET r == Msr_read(Globals, reg, cpu, plan)
          IN DirectReturns([NoDirect EXCEPT !.op = "read", !.reg = reg, !.cpu = cpu,
                                           !.ok = isValid(r.item), !.item = r.item],
                           r.g)

\* Msr::get()->write(reg, value, cpu, mask) on the constructed accessor
Msr_write_call(reg, value, cpu, mask) ==
    /\ calls < MaxCalls
    /\ msr_instance # "null"
    /\ \E plan \in AccPlans(reg, cpu) :
          LET w == Msr_write(Globals, reg, value, cpu, mask, plan)
          IN DirectReturns([NoDirect EXCEPT !.op = "write", !.reg = reg, !.value = value,
                                           !.cpu = cpu, !.mask = mask, !.ok = w.ok],
                           w.g)

NextAccessor ==
    \/ Msr_get_call
    \/ \E reg \in AccRegs, cpu \in AccCpus : Msr_read_call(reg, cpu)
    \/ \E reg \in AccRegs, value \in AccValues, cpu \in AccCpus, mask \in AccMasks :
          Msr_write_call(reg, value, cpu, mask)

SpecAccessor == InitAccessor /\ [][NextAccessor]_vars

(***************************************************************************)
(* randomx_msr.cpp: CPU detection applied to a range of CPUID answers      *)
(***************************************************************************)
\* CPUID leaf 1 EAX fields: families 0x00 .. 0x22, among them 0x17 and 0x19
\* each composed in two ways, with the models 0x00-0x1F, 0x60-0x7F and
\* 0xF0-0xFF
DetectEax ==
    { [base_family |-> bf, ext_family |-> ef, base_model |-> bm, ext_model |-> em] :
        bf \in {0, 6, 15}, ef \in {0, 8, 9, 10, 11, 17, 19},
        bm \in 0..15, em \in {0, 1, 6, 7, 15} }

DetectHosts ==
    { Host([vendor |-> v, eax |-> e], FALSE, FALSE, TRUE, FALSE) :
        v \in {"AuthenticAMD", "GenuineIntel", "Other"}, e \in DetectEax }

InitDetect ==
    /\ InitMsrOn(DetectHosts, {InitRegs({5, 63}, {5, 63})})
    /\ InitFix

\* DetectAMDFamily()
DetectAMDFamily_call ==
    /\ calls < MaxCalls
    /\ LET f == DetectAMDFamily(Globals)
       IN DirectReturns([NoDirect EXCEPT !.op = "DetectAMDFamily", !.ok = TRUE,
                                        !.family = f.family],
                        f.g)

\* DetectMsrMod()
DetectMsrMod_call ==
    /\ calls < MaxCalls
    /\ LET d == DetectMsrMod(Globals)
       IN DirectReturns([NoDirect EXCEPT !.op = "DetectMsrMod", !.ok = TRUE,
                                        !.vendor = VendorOf(hw.vendor), !.mod = d.mod],
                        d.g)

NextDetect ==
    \/ DetectAMDFamily_call
    \/ DetectMsrMod_call

SpecDetect == InitDetect /\ [][NextDetect]_vars

(***************************************************************************)
(* RandomX_Msr::Init called by several threads at once.  The function takes *)
(* no lock, so the calls interleave at their accesses to the static flags:  *)
(* the test of m_initialized, the three assignments that follow it, the    *)
(* detection and ApplyMsrPreset with the assignment of its result, and the *)
(* final read of m_enabled.  ApplyMsrPreset is taken as one step; finer    *)
(* interleavings only add behaviours.                                      *)
(***************************************************************************)
\* hosts with a preset (accessor available or not) and a host without one
RaceHosts ==
    { Host([vendor |-> "AuthenticAMD", eax |-> CHOOSE e \in EaxSet : e.ext_family = 8],
           FALSE, FALSE, a, FALSE) : a \in BOOLEAN }
    \cup { Host([vendor |-> "Other", eax |-> CHOOSE e \in EaxSet : e.ext_family = 6],
                FALSE, FALSE, TRUE, FALSE) }
RaceArgs == { <<{}, FALSE>>, <<{0}, TRUE>> }
\* every device operation succeeds, or the first preset write fails on the
\* last logical CPU
RacePlans == {NoFault, [rd |-> {}, wr |-> {<<NumCPUs - 1, REG_C0011020>>}]}

InitRace ==
    /\ InitMsrOn(RaceHosts, {InitRegs({5, 63}, {5, 63})})
    /\ InitFix

RaceUnchanged == <<hw, lastCall, pre, initSnap, calls, direct, fixVars>>

\* line 276: if (m_initialized)
Init_Test(t, thread_affinities, enable_cache_qos) ==
    /\ racer[t].pc = "idle"
    /\ racer' = [racer EXCEPT ![t] =
                    [@ EXCEPT !.pc = IF m_initialized THEN "cached" ELSE "flags",
                              !.thread_affinities = thread_affinities,
                              !.enable_cache_qos = enable_cache_qos]]
    /\ UNCHANGED <<regs, msr_instance, m_enabled, m_initialized, m_cache_qos,
                   original_msrs, opLog, RaceUnchanged>>

\* line 277: return m_enabled;
Init_ReturnCached(t) ==
    /\ racer[t].pc = "cached"
    /\ racer' = [racer EXCEPT ![t] = [@ EXCEPT !.pc = "done", !.ret = m_enabled]]
    /\ UNCHANGED <<regs, msr_instance, m_enabled, m_initialized, m_cache_qos,
                   original_msrs, opLog, RaceUnchanged>>

\* lines 280-282: m_initialized = true; m_enabled = false; m_cache_qos = ...
Init_SetFlags(t) ==
    /\ racer[t].pc = "flags"
    /\ m_initialized' = TRUE
    /\ m_enabled' = FALSE
    /\ m_cache_qos' = racer[t].enable_cache_qos
    /\ racer' = [racer EXCEPT ![t] = [@ EXCEPT !.pc = "apply"]]
    /\ UNCHANGED <<regs, msr_instance, original_msrs, opLog, RaceUnchanged>>

\* lines 286 and 292: neither early return is taken
ReachesApply ==
    LET mod == DetectMsrMod(Globals).mod
    IN /\ ~(mod = MSR_MOD_NONE \/ mod >= MSR_MOD_MAX)
       /\ Len(msrPresets[mod]) > 0

\* what lines 285-305 leave behind: r is the outcome of the detection and of
\* ApplyMsrPreset, applied says that ApplyMsrPreset was reached
ApplyReturns(t, r, applied) ==
    /\ m_enabled' = IF applied THEN r.enabled ELSE m_enabled
    /\ regs' = r.g.regs
    /\ msr_instance' = r.g.inst
    /\ original_msrs' = r.g.original_msrs
    /\ opLog' = r.g.log
    /\ racer' = [racer EXCEPT ![t] =
                    [@ EXCEPT !.pc = IF applied THEN "return" ELSE "done",
                              !.ran = applied]]
    /\ UNCHANGED <<m_initialized, m_cache_qos, RaceUnchanged>>

\* lines 285-305: detection, the two early returns, and
\* m_enabled = ApplyMsrPreset(preset, thread_affinities, m_cache_qos)
Init_Apply(t) ==
    /\ racer[t].pc = "apply"
    /\ \E plan \in RacePlans :
          ApplyReturns(t, InitBody(racer[t].thread_affinities, m_cache_qos, plan),
                       ReachesApply)

\* line 316: return m_enabled;
Init_Return(t) ==
    /\ racer[t].pc = "return"
    /\ racer' = [racer EXCEPT ![t] = [@ EXCEPT !.pc = "done", !.ret = m_enabled]]
    /\ UNCHANGED <<regs, msr_instance, m_enabled, m_initialized, m_cache_qos,
                   original_msrs, opLog, RaceUnchanged>>

NextRace ==
    \/ \E t \in Threads, a \in RaceArgs : Init_Test(t, a[1], a[2])
    \/ \E t \in Threads : Init_ReturnCached(t)
    \/ \E t \in Threads : Init_SetFlags(t)
    \/ \E t \in Threads : Init_Apply(t)
    \/ \E t \in Threads : Init_Return(t)

SpecRace == InitRace /\ [][NextRace]_vars

(***************************************************************************)
(* randomx_fix.cpp: the crash recovery frame                               *)
(***************************************************************************)
LogSig(log, call, sig, ok) == Append(log, [call |-> call, sig |-> sig, ok |-> ok])

\* sigaction(sig, &act, nullptr) with act.sa_sigaction = MainLoopHandler
sigaction(f, sig, ok) ==
    [ok |-> ok,
     disposition |-> IF ok THEN [f.disposition EXCEPT ![sig] = "MainLoopHandler"]
                     ELSE f.disposition,
     log |-> LogSig(f.log, "sigaction", sig, ok)]

\* signal(sig, SIG_DFL)
signal_dfl(f, sig) ==
    [disposition |-> [f.disposition EXCEPT ![sig] = "SIG_DFL"],
     log |-> LogSig(f.log, "signal", sig, TRUE)]

FixGlobals == [disposition |-> disposition, log |-> << >>]

\* the handler jumping whether or not the thread is in a protected region
MainLoopHandler_AlwaysJump(t, sig, jump) ==
    [disposition |-> disposition,
     log |-> LogSig(<< >>, "siglongjmp", sig, TRUE),
     outcome |-> IF exception_env[t] = "saved" THEN "resumed" ELSE jump]

\* MainLoopHandler(sig, info, ucontext) run on thread t.  jump is the outcome
\* of siglongjmp on a jump buffer that sigsetjmp never filled.
MainLoopHandler(t, sig, jump) ==
    IF ~exception_frame_active[t]
    THEN LET f == signal_dfl(FixGlobals, sig)
         IN [disposition |-> f.disposition,
             log |-> LogSig(f.log, "raise", sig, TRUE),
             outcome |-> "terminated"]
    ELSE [disposition |-> disposition,
          log |-> LogSig(<< >>, "siglongjmp", sig, TRUE),
          outcome |-> IF exception_env[t] = "saved" THEN "resumed" ELSE jump]

\* RandomX_Fix::SetupMainLoopExceptionFrame after the m_initialized test
SetupBody(segv_ok, ill_ok) ==
    LET a == sigaction(FixGlobals, "SIGSEGV", segv_ok)
    IN IF ~a.ok
       THEN [initialized |-> FALSE, disposition |-> a.disposition, log |-> a.log]
       ELSE LET b == sigaction(a, "SIGILL", ill_ok)
            IN [initialized |-> b.ok, disposition |-> b.disposition, log |-> b.log]

FixStep(op, t, sig, outcome) ==
    /\ fixCall' = [op |-> op, thread |-> t, sig |-> sig, outcome |-> outcome,
                   handler |-> IF sig \in Signals
                               THEN disposition[sig] = "MainLoopHandler" ELSE FALSE,
                   active |-> exception_frame_active[t],
                   wasArmed |-> t \in armed,
                   wasInitialized |-> fix_initialized]
    /\ steps' = steps + 1
    /\ UNCHANGED <<msrVars, arming>>

\* the successful sigaction calls for signal s in a call's log
Installs(log, s) ==
    Cardinality({i \in 1..Len(log) :
                    log[i].call = "sigaction" /\ log[i].sig = s /\ log[i].ok})

\* lines 47-57 of SetupMainLoopExceptionFrame: the two sigaction calls and
\* the assignment of m_initialized
SetupInstalls ==
    \E segv_ok \in BOOLEAN, ill_ok \in BOOLEAN :
        LET r == SetupBody(segv_ok, ill_ok)
        IN /\ fix_initialized' = r.initialized
           /\ disposition' = r.disposition
           /\ fixLog' = r.log
           /\ installed' = [s \in Signals |-> installed[s] + Installs(r.log, s)]

\* Setup without its m_initialized test
SetupMainLoopExceptionFrame_NoGuard(t) ==
    /\ alive
    /\ steps < MaxSteps
    /\ SetupInstalls
    /\ armed' = armed \cup {t}
    /\ FixStep("Setup", t, "none", "returned")
    /\ UNCHANGED <<exception_frame_active, exception_env, alive>>

\* Setup marking a protected region kept in one process-wide flag
SetupMainLoopExceptionFrame_SharedFlag(t) ==
    /\ alive
    /\ steps < MaxSteps
    /\ IF fix_initialized
       THEN /\ fixLog' = << >>
            /\ UNCHANGED <<fix_initialized, disposition, installed>>
       ELSE SetupInstalls
    /\ armed' = armed \cup {t}
    /\ FixStep("Setup", t, "none", "returned")
    /\ exception_frame_active' = [u \in Threads |-> TRUE]
    /\ UNCHANGED <<exception_env, alive>>

SetupMainLoopExceptionFrame(t) ==
    /\ alive
    /\ steps < MaxSteps
    /\ IF fix_initialized
       THEN /\ fixLog' = << >>
            /\ UNCHANGED <<fix_initialized, disposition, installed>>
       ELSE SetupInstalls
    /\ armed' = armed \cup {t}
    /\ FixStep("Setup", t, "none", "returned")
    /\ UNCHANGED <<exception_frame_active, exception_env, alive>>

RemoveMainLoopExceptionFrame(t) ==
    /\ alive
    /\ steps < MaxSteps
    /\ IF ~fix_initialized
       THEN /\ fixLog' = << >>
            /\ UNCHANGED <<fix_initialized, disposition>>
       ELSE LET f == signal_dfl(signal_dfl(FixGlobals, "SIGSEGV"), "SIGILL")
            IN /\ disposition' = f.disposition
               /\ fixLog' = f.log
               /\ fix_initialized' = FALSE
    /\ armed' = {}
    /\ installed' = [s \in Signals |-> 0]
    /\ FixStep("Remove", t, "none", "returned")
    /\ UNCHANGED <<exception_frame_active, exception_env, alive>>

\* the signal sig is delivered to thread t: the default action terminates the
\* process, an installed handler runs on t
Fault(t, sig) ==
    /\ alive
    /\ steps < MaxSteps
    /\ IF disposition[sig] = "SIG_DFL"
       THEN /\ alive' = FALSE
            /\ fixLog' = << >>
            /\ FixStep("Fault", t, sig, "terminated")
            /\ UNCHANGED disposition
       ELSE \E jump \in {"resumed", "terminated"} :
                LET h == MainLoopHandler(t, sig, jump)
                IN /\ disposition' = h.disposition
                   /\ fixLog' = h.log
                   /\ alive' = (h.outcome = "resumed")
                   /\ FixStep("Fault", t, sig, h.outcome)
    /\ UNCHANGED <<fix_initialized, exception_frame_active, exception_env, armed,
                   installed>>

\* the crash recovery frame alone, on one fixed host
InitOneHost ==
    /\ InitMsrOn({Host([vendor |-> "Other", eax |-> CHOOSE e \in EaxSet : e.ext_family = 6],
                       FALSE, FALSE, FALSE, FALSE)},
                 {InitRegs({5, 63}, {5, 63})})
    /\ InitFix

NextFix ==
    \/ \E t \in Threads : SetupMainLoopExceptionFrame(t)
    \/ \E t \in Threads : RemoveMainLoopExceptionFrame(t)
    \/ \E t \in Threads, sig \in Signals : Fault(t, sig)

SpecFix == InitOneHost /\ [][NextFix]_vars

(***************************************************************************)
(* Two threads in SetupMainLoopExceptionFrame at once.  The function takes *)
(* no lock, so a call is a sequence of steps that interleave with the      *)
(* other thread's: the test of m_initialized, the two sigaction calls and  *)
(* the assignment of m_initialized.  The unsynchronised test reads either  *)
(* the old or the new value of the flag, which the interleaving covers.    *)
(***************************************************************************)
SetupRaceUnchanged == <<msrVars, exception_frame_active, exception_env, alive>>

\* line 42: if (m_initialized) return;
Setup_Test(t) ==
    /\ alive
    /\ steps < MaxSteps
    /\ arming[t].pc = "idle"
    /\ arming' = [arming EXCEPT ![t].pc = IF fix_initialized THEN "idle" ELSE "segv"]
    /\ armed' = armed \cup {t}
    /\ fixLog' = << >>
    /\ fixCall' = [op |-> "Setup", thread |-> t, sig |-> "none", outcome |-> "returned",
                   handler |-> FALSE, active |-> exception_frame_active[t],
                   wasArmed |-> t \in armed, wasInitialized |-> fix_initialized]
    /\ steps' = steps + 1
    /\ UNCHANGED <<fix_initialized, disposition, installed, SetupRaceUnchanged>>

\* line 51: sigaction(SIGSEGV, &act, nullptr) == 0; a failure goes to the
\* warning of line 56 and the call returns
Setup_Segv(t) ==
    /\ arming[t].pc = "segv"
    /\ \E ok \in BOOLEAN :
          /\ disposition' = sigaction(FixGlobals, "SIGSEGV", ok).disposition
          /\ fixLog' = sigaction(FixGlobals, "SIGSEGV", ok).log
          /\ installed' = [installed EXCEPT !["SIGSEGV"] = @ + (IF ok THEN 1 ELSE 0)]
          /\ arming' = [arming EXCEPT ![t].pc = IF ok THEN "ill" ELSE "idle"]
    /\ UNCHANGED <<fix_initialized, armed, fixCall, steps, SetupRaceUnchanged>>

\* line 52: sigaction(SIGILL, &act, nullptr) == 0
Setup_Ill(t) ==
    /\ arming[t].pc = "ill"
    /\ \E ok \in BOOLEAN :
          /\ disposition' = sigaction(FixGlobals, "SIGILL", ok).disposition
          /\ fixLog' = sigaction(FixGlobals, "SIGILL", ok).log
          /\ installed' = [installed EXCEPT !["SIGILL"] = @ + (IF ok THEN 1 ELSE 0)]
          /\ arming' = [arming EXCEPT ![t].pc = IF ok THEN "set" ELSE "idle"]
    /\ UNCHANGED <<fix_initialized, armed, fixCall, steps, SetupRaceUnchanged>>

\* line 54: m_initialized = true; and the call returns
Setup_SetFlag(t) ==
    /\ arming[t].pc = "set"
    /\ fix_initialized' = TRUE
    /\ arming' = [arming EXCEPT ![t] = [pc |-> "idle", installs |-> @.installs + 1]]
    /\ fixLog' = << >>
    /\ UNCHANGED <<disposition, installed, armed, fixCall, steps, SetupRaceUnchanged>>

NextSetupRace ==
    \/ \E t \in Threads : Setup_Test(t)
    \/ \E t \in Threads : Setup_Segv(t)
    \/ \E t \in Threads : Setup_Ill(t)
    \/ \E t \in Threads : Setup_SetFlag(t)

SpecSetupRace == InitOneHost /\ [][NextSetupRace]_vars

(***************************************************************************)
(* Properties of the tuning controller (specification Spec)                *)
(***************************************************************************)
IsDev(e) == e.op \in {"rdmsr", "wrmsr"}
IsWrite(e) == e.op = "wrmsr"
WriteIdx(log) == {i \in 1..Len(log) : IsWrite(log[i])}
\* the <<cpu, reg>> a call wrote successfully
Written(log) == {<<log[i].cpu, log[i].reg>> : i \in {j \in WriteIdx(log) : log[j].ok}}

\* the preset of the host, by the vendor and family classification
HostMod ==
    IF VendorOf(hw.vendor) = CPU_VENDOR_INTEL THEN MSR_MOD_INTEL
    ELSE IF VendorOf(hw.vendor) = CPU_VENDOR_AMD
         THEN ModOfFamily(AMDFamilyOf(FamilyOfEax(hw.eax), ModelOfEax(hw.eax)))
         ELSE MSR_MOD_NONE
HostPreset == msrPresets[HostMod]

\* the device operations of an Init call: the first Len(HostPreset) are the
\* backup reads, the later ones belong to the broadcast-apply
DevCount(log, i) == Cardinality({j \in 1..i : IsDev(log[j])})
BackupIdx(log) == {i \in 1..Len(log) : IsDev(log[i]) /\ DevCount(log, i) <= Len(HostPreset)}
ApplyIdx(log) == {i \in 1..Len(log) : IsDev(log[i]) /\ DevCount(log, i) > Len(HostPreset)}

InitRan == lastCall.op = "Init" /\ lastCall.ran
DestroyCalled == lastCall.op = "Destroy"

\* C1: after a successful Init and a Destroy all of whose writes succeed,
\* every register Init wrote on every logical CPU holds its value from
\* before Init.
C1_RoundTrip ==
    (/\ DestroyCalled /\ lastCall.ran /\ pre.m_enabled
     /\ \A i \in WriteIdx(opLog) : opLog[i].ok)
    => \A p \in Written(initSnap.log) : regs[p[1]][p[2]] = initSnap.regs[p[1]][p[2]]

\* C2: Init issues no register write before a backup read has succeeded for
\* every register of the preset; when a backup read fails Init returns
\* false, the backup set is empty and no register has been written.
C2_NoWriteBeforeCompleteBackup ==
    InitRan =>
        /\ \A i \in WriteIdx(opLog) : \A k \in 1..Len(HostPreset) :
              \E j \in 1..(i - 1) :
                  /\ opLog[j].op = "rdmsr" /\ opLog[j].ok
                  /\ opLog[j].reg = HostPreset[k].reg
        /\ (\E j \in BackupIdx(opLog) : ~opLog[j].ok) =>
              /\ ~lastCall.ret /\ ~m_enabled
              /\ original_msrs = << >>
              /\ WriteIdx(opLog) = {}
              /\ regs = pre.regs

\* C2 witness: a backup read failed after an earlier backup read succeeded
C2_Witness ==
    /\ InitRan
    /\ \E j \in BackupIdx(opLog) : ~opLog[j].ok /\ \E i \in 1..(j - 1) : opLog[i].op = "rdmsr"

C4_InitIdempotent ==
    (lastCall.op = "Init" /\ pre.m_initialized) =>
        /\ lastCall.ret = initSnap.ret
        /\ ~lastCall.ran
        /\ opLog = << >>
        /\ regs = pre.regs
        /\ m_initialized /\ m_enabled = pre.m_enabled
        /\ original_msrs = pre.original_msrs

\* C4 witness: a further Init on a controller whose first Init failed after
\* touching the device
C4_Witness ==
    /\ lastCall.op = "Init" /\ pre.m_initialized /\ ~lastCall.ret
    /\ WriteIdx(initSnap.log) # {}

\* C5: when a restore write of Destroy fails on a logical CPU, Destroy
\* still attempts restore writes on every higher-numbered logical CPU.
C5_RestoreBestEffort ==
    (DestroyCalled /\ lastCall.ran) =>
        \A i \in WriteIdx(opLog) :
            ~opLog[i].ok =>
                \A c \in CPUs : c > opLog[i].cpu =>
                    \E j \in WriteIdx(opLog) : opLog[j].cpu = c

\* a failed capacity write of 0, which the apply callback retries with 1
IsRejectedZero(e) == IsWrite(e) /\ ~e.ok /\ e.reg = REG_C91 /\ e.value = {}

\* C6 as stated: the first failing write of the broadcast-apply ends it and
\* Init returns false with IsEnabled() false.
C6_FirstFailedWriteEndsApply ==
    InitRan =>
        \A i \in ApplyIdx(opLog) :
            (IsWrite(opLog[i]) /\ ~opLog[i].ok) =>
                i = Len(opLog) /\ ~lastCall.ret /\ ~IsEnabled

\* C6 as amended: the broadcast-apply visits the logical CPUs in ascending
\* order, all of them when Init returns true; the first failing register
\* write (its pwrite or its masked read), other than the capacity write of 0
\* to 0xC91, ends the broadcast and Init returns false with IsEnabled()
\* false; a rejected capacity write of 0 is followed by the write of 1 on
\* the same CPU.
C6_FailedWriteEndsApplyExceptZero ==
    InitRan =>
        /\ \A i \in ApplyIdx(opLog), j \in ApplyIdx(opLog) :
              i < j => opLog[i].cpu <= opLog[j].cpu
        /\ lastCall.ret => \A c \in CPUs : \E i \in ApplyIdx(opLog) : opLog[i].cpu = c
        /\ \A i \in ApplyIdx(opLog) :
              /\ (~opLog[i].ok /\ ~IsRejectedZero(opLog[i])) =>
                    i = Len(opLog) /\ ~lastCall.ret /\ ~IsEnabled
              /\ IsRejectedZero(opLog[i]) =>
                    /\ i < Len(opLog)
                    /\ IsWrite(opLog[i + 1]) /\ opLog[i + 1].reg = REG_C91
                    /\ opLog[i + 1].value = {0} /\ opLog[i + 1].cpu = opLog[i].cpu

\* C6 witness: a preset write failed on the first of several CPUs
C6_Witness ==
    /\ InitRan /\ ~lastCall.ret
    /\ \E i \in ApplyIdx(opLog) :
          /\ IsWrite(opLog[i]) /\ ~opLog[i].ok /\ opLog[i].reg \notin QosRegs
          /\ opLog[i].cpu = 0 /\ i = Len(opLog)

\* the cache QoS writes a call issued to a logical CPU, in order
QosWrites(log, c) ==
    LET Test(e) == IsWrite(e) /\ e.cpu = c /\ e.reg \in QosRegs
        Strip(e) == <<e.reg, e.value, e.ok>>
        sel == SelectSeq(log, Test)
    IN [i \in 1..Len(sel) |-> Strip(sel[i])]

\* C9: after a successful Init with cache QoS active and a non-empty
\* affinity set, a CPU in the set got exactly 0xC8F := 0, every other CPU got
\* 0xC91 := 0 (then 0xC91 := 1 only if the 0 was rejected) followed by
\* 0xC8F := 1<<32, after its preset writes.
C9_CacheQosPartition ==
    (/\ InitRan /\ lastCall.ret
     /\ initSnap.enable_cache_qos /\ hw.catl3 /\ initSnap.thread_affinities # {})
    => \A c \in CPUs :
          /\ IF c \in initSnap.thread_affinities
             THEN QosWrites(opLog, c) = << <<REG_C8F, {}, TRUE>> >>
             ELSE QosWrites(opLog, c) \in
                    { << <<REG_C91, {}, TRUE>>, <<REG_C8F, COS1, TRUE>> >>,
                      << <<REG_C91, {}, FALSE>>, <<REG_C91, {0}, TRUE>>,
                         <<REG_C8F, COS1, TRUE>> >> }
          /\ \A i \in WriteIdx(opLog), j \in WriteIdx(opLog) :
                (/\ opLog[i].cpu = c /\ opLog[j].cpu = c
                 /\ opLog[i].reg \in QosRegs /\ opLog[j].reg \notin QosRegs) => j < i

\* C9 witness: both classes assigned, with the capacity write retried
C9_Witness ==
    /\ InitRan /\ lastCall.ret /\ initSnap.enable_cache_qos /\ hw.catl3
    /\ \E c \in CPUs : c \in initSnap.thread_affinities
    /\ \E c \in CPUs : /\ c \notin initSnap.thread_affinities
                       /\ Len(QosWrites(opLog, c)) > Len(QosWrites(opLog, 0))
                       /\ regs[c][REG_C91] = {0}

\* C10: when the vendor is unknown or the AMD family is unknown, Init
\* returns false without constructing the accessor, reading or writing a
\* register.
C10_NoPresetNoBackend ==
    (InitRan /\ (VendorOf(hw.vendor) = CPU_VENDOR_UNKNOWN
                 \/ (VendorOf(hw.vendor) = CPU_VENDOR_AMD
                     /\ AMDFamilyOf(FamilyOfEax(hw.eax), ModelOfEax(hw.eax)) = AMD_UNKNOWN)))
    => /\ ~lastCall.ret /\ ~IsEnabled
       /\ \A i \in 1..Len(opLog) : opLog[i].op = "cpuid"
       /\ msr_instance = "null"
       /\ regs = pre.regs
       /\ original_msrs = << >>

\* C10 witness: Init on an AMD host of unknown family whose msr module
\* could be enabled
C10_Witness ==
    /\ InitRan /\ ~lastCall.ret /\ hw.allow_writes
    /\ VendorOf(hw.vendor) = CPU_VENDOR_AMD
    /\ AMDFamilyOf(FamilyOfEax(hw.eax), ModelOfEax(hw.eax)) = AMD_UNKNOWN
    /\ Len(opLog) = 2

\* C11: after Destroy returns from an initialized controller, Enabled or
\* Disabled, the controller is Uninitialized: m_initialized and m_enabled
\* are false and the backup set is empty (so that the next Init runs
\* detection, backup and apply again).
C11_DestroyReturnsToUninitialized ==
    (DestroyCalled /\ pre.m_initialized) =>
        /\ ~m_initialized /\ ~m_enabled
        /\ original_msrs = << >>

\* the CPUID leaves a call read
CpuidLeaves(log) == {log[i].reg[2] : i \in {j \in 1..Len(log) : log[j].op = "cpuid"}}

\* C18: when cache QoS is requested but the affinity set is empty or the
\* CAT L3 probe fails, an Init that reached the device with every backup read
\* succeeding holds a complete backup, goes on to the broadcast-apply, writes
\* neither 0xC8F nor 0xC91 on any CPU, and returns true exactly when every
\* operation of the broadcast succeeded, every preset register then having
\* been written on every logical CPU.  The probe runs only when the affinity
\* set is not empty.
C18_CacheQosDowngrade ==
    (/\ InitRan /\ initSnap.enable_cache_qos
     /\ (initSnap.thread_affinities = {} \/ ~hw.catl3)
     /\ Len(HostPreset) > 0 /\ msr_instance = "available"
     /\ \A j \in BackupIdx(opLog) : opLog[j].ok)
    => /\ Len(original_msrs) = Len(HostPreset)
       /\ ApplyIdx(opLog) # {}
       /\ \A i \in 1..Len(opLog) : IsDev(opLog[i]) => opLog[i].reg \notin QosRegs
       /\ \A c \in CPUs, r \in QosRegs : regs[c][r] = pre.regs[c][r]
       /\ (16 \in CpuidLeaves(opLog)) <=> (initSnap.thread_affinities # {})
       /\ lastCall.ret <=> (\A i \in ApplyIdx(opLog) : opLog[i].ok)
       /\ lastCall.ret =>
             /\ IsEnabled
             /\ \A c \in CPUs, k \in 1..Len(HostPreset) :
                   \E i \in WriteIdx(opLog) :
                       /\ opLog[i].cpu = c /\ opLog[i].ok
                       /\ opLog[i].reg = HostPreset[k].reg

\* C18 witness: cache QoS requested with an affinity set on a host whose
\* CAT L3 probe fails, and Init returned true
C18_Witness ==
    /\ InitRan /\ lastCall.ret
    /\ initSnap.enable_cache_qos /\ initSnap.thread_affinities # {} /\ ~hw.catl3
    /\ 16 \in CpuidLeaves(opLog)
    /\ \A c \in CPUs : \E i \in WriteIdx(opLog) : opLog[i].cpu = c

(***************************************************************************)
(* Properties of the crash recovery frame (specification SpecFix)          *)
(***************************************************************************)
\* C7: a SIGSEGV or SIGILL delivered to a thread that armed the frame, with
\* the handler installed, finds the thread's protected-region flag active,
\* jumps back to the saved point, and the process is not terminated.
C7_ArmedFaultResumes ==
    (fixCall.op = "Fault" /\ fixCall.wasArmed /\ fixCall.handler) =>
        /\ fixCall.active
        /\ fixCall.outcome = "resumed"
        /\ alive

\* C8: a fault signal delivered to a thread whose protected-region flag is
\* inactive, with the handler installed: the handler does not jump, sets the
\* signal's disposition to the default and re-raises the signal, and the
\* process is terminated.
C8_InactiveFaultReraised ==
    (fixCall.op = "Fault" /\ fixCall.handler /\ ~fixCall.active) =>
        /\ fixLog = << [call |-> "signal", sig |-> fixCall.sig, ok |-> TRUE],
                       [call |-> "raise", sig |-> fixCall.sig, ok |-> TRUE] >>
        /\ disposition[fixCall.sig] = "SIG_DFL"
        /\ fixCall.outcome = "terminated"
        /\ ~alive

\* C8 witness: the installed handler ran on a thread outside a protected region
C8_Witness ==
    /\ fixCall.op = "Fault" /\ fixCall.handler /\ ~fixCall.active
    /\ fixCall.wasInitialized /\ ~alive

C16_RemoveRestoresDefault ==
    (fixCall.op = "Remove") => \A s \in Signals : disposition[s] = "SIG_DFL"

DirectCpu == msr_open(direct.cpu)

\* C12: when the accessor is unavailable, every Msr::read returns an invalid
\* item and every Msr::write returns false, and neither performs a device
\* operation.
C12_UnavailableFailsFast ==
    (direct.op \in {"read", "write"} /\ msr_instance = "unavailable") =>
        /\ ~direct.ok
        /\ ~isValid(direct.item)
        /\ \A i \in 1..Len(opLog) : ~IsDev(opLog[i])

C14_FailedMaskReadNoWrite ==
    (/\ direct.op = "write" /\ direct.mask # kNoMask
     /\ \E i \in 1..Len(opLog) : opLog[i].op = "rdmsr" /\ ~opLog[i].ok)
    => /\ ~direct.ok
       /\ WriteIdx(opLog) = {}
       /\ regs = pre.regs

\* C14 witness: the read for masking failed on an available accessor, for a
\* write that would have changed the register
C14_Witness ==
    /\ direct.op = "write" /\ direct.mask # kNoMask
    /\ msr_instance = "available"
    /\ Len(opLog) = 1 /\ opLog[1].op = "rdmsr" /\ ~opLog[1].ok
    /\ maskedValue(regs[DirectCpu][direct.reg], direct.value, direct.mask)
          # regs[DirectCpu][direct.reg]

(***************************************************************************)
(* Properties of CPU detection (specification SpecDetect)                  *)
(***************************************************************************)
\* the classification as the specification words it, on the family and model
\* numbers: 0x17 = 23, 0x19 = 25, 0x10 = 16, 0x6F = 111, 0x70 = 112
StatedFamily(family, model) ==
    CASE family = 23 -> AMD_RYZEN_17H
      [] family = 25 /\ model < 16 -> AMD_RYZEN_19H
      [] family = 25 /\ model >= 16 /\ model <= 111 -> AMD_RYZEN_ZEN4
      [] family = 25 /\ model >= 112 -> AMD_RYZEN_ZEN5
      [] OTHER -> AMD_UNKNOWN

\* C19: DetectAMDFamily classifies every (family, model) as stated: 0x17 is
\* Zen1/2; 0x19 is Zen3 below model 0x10, Zen4 from 0x10 to 0x6F, Zen5 from
\* 0x70; any other family is Unknown.  On an AMD host DetectMsrMod selects
\* the preset of that family, and no preset for an Unknown family.
C19_AMDFamilyClassification ==
    LET stated == StatedFamily(FamilyOfEax(hw.eax), ModelOfEax(hw.eax))
    IN /\ (direct.op = "DetectAMDFamily") => direct.family = stated
       /\ (direct.op = "DetectMsrMod" /\ hw.vendor = "AuthenticAMD") =>
             /\ stated = AMD_RYZEN_17H => direct.mod = MSR_MOD_RYZEN_17H
             /\ stated = AMD_RYZEN_19H => direct.mod = MSR_MOD_RYZEN_19H
             /\ stated = AMD_RYZEN_ZEN4 => direct.mod = MSR_MOD_RYZEN_ZEN4
             /\ stated = AMD_RYZEN_ZEN5 => direct.mod = MSR_MOD_RYZEN_ZEN5
             /\ stated = AMD_UNKNOWN =>
                   (direct.mod = MSR_MOD_NONE /\ Len(msrPresets[direct.mod]) = 0)

\* C19 witness: family 0x19 with the boundary model 0x6F classified as Zen4
C19_Witness ==
    /\ direct.op = "DetectAMDFamily"
    /\ FamilyOfEax(hw.eax) = 25 /\ ModelOfEax(hw.eax) = 111
    /\ direct.family = AMD_RYZEN_ZEN4

(***************************************************************************)
(* Properties of concurrent Init calls (specification SpecRace)            *)
(***************************************************************************)
\* C20: when the threads that called Init have all returned, at most one of
\* them ran the backup and apply, and every call returned the same boolean,
\* the final IsEnabled().
C20_ConcurrentInitSafe ==
    (\A t \in Threads : racer[t].pc = "done") =>
        /\ Cardinality({t \in Threads : racer[t].ran}) <= 1
        /\ \A t \in Threads : racer[t].ret = IsEnabled

(***************************************************************************)
(* Further properties of the tuning controller (specification Spec)        *)
(***************************************************************************)
\* the item Msr::read returns for register reg of the first logical CPU in
\* the register contents r
BackupItem(r, reg) == MsrItem(reg, r[Head(GetCPUList)][reg], kNoMask)

\* C22: in every state reached by Init and Destroy calls, whatever reads and
\* writes failed, IsEnabled() implies that the controller is initialized and
\* that the backup set holds one valid item per register of the applied
\* preset, in preset order, each with the all-ones mask and the value the
\* register had before the Init that applied the preset wrote anything.
C22_EnabledHasCompleteBackup ==
    IsEnabled =>
        /\ m_initialized
        /\ initSnap.valid /\ initSnap.ret
        /\ Len(original_msrs) = Len(HostPreset)
        /\ \A i \in 1..Len(HostPreset) :
              /\ isValid(original_msrs[i])
              /\ original_msrs[i] = BackupItem(initSnap.regs, HostPreset[i].reg)

\* C22 witness: the controller is enabled by an Init call that ran as the
\* last of MaxCalls calls and changed a preset register of the first CPU,
\* whose backup item differs from the register's present value
C22_Witness ==
    /\ IsEnabled /\ InitRan /\ calls = MaxCalls
    /\ Len(original_msrs) > 1
    /\ \E i \in 1..Len(HostPreset) :
          regs[Head(GetCPUList)][HostPreset[i].reg] # original_msrs[i].value

\* the registers of a backup set
ItemRegs(items) == {items[i].reg : i \in 1..Len(items)}

DestroyAfterFailedApply ==
    /\ DestroyCalled /\ lastCall.ran
    /\ pre.m_initialized /\ ~pre.m_enabled
    /\ \E i \in ApplyIdx(initSnap.log) : ~initSnap.log[i].ok

\* the logical CPUs before the first one on which a restore write failed
RestoredCPUs(log) ==
    {c \in CPUs : \A i \in WriteIdx(log) : ~log[i].ok => c < log[i].cpu}

\* C23: after an Init whose broadcast-apply failed partway, the backup set
\* is retained, and a following Destroy writes the backup values back in
\* ascending CPU order, so that every preset register of every logical CPU
\* before the first CPU whose restore write fails holds its value from
\* before Init.
C23_FailedApplyRestored ==
    DestroyAfterFailedApply =>
        /\ Len(pre.original_msrs) = Len(HostPreset)
        /\ \A i \in WriteIdx(opLog) : \A j \in WriteIdx(opLog) :
              i < j => opLog[i].cpu <= opLog[j].cpu
        /\ \A c \in RestoredCPUs(opLog) : \A k \in 1..Len(HostPreset) :
              regs[c][HostPreset[k].reg] = initSnap.regs[c][HostPreset[k].reg]

(***************************************************************************)
(* Further properties of the crash recovery frame                          *)
(***************************************************************************)
\* C25: in every state reached by Setup and Remove calls, whichever
\* sigaction calls failed, RandomX_Fix::m_initialized false implies that
\* MainLoopHandler is installed neither for SIGSEGV nor for SIGILL.
C25_UninitializedHasNoHandler ==
    ~fix_initialized => \A s \in Signals : disposition[s] # "MainLoopHandler"

(***************************************************************************)
(* Properties of concurrent Setup calls (specification SpecSetupRace)      *)
(***************************************************************************)
\* the threads that executed the handler installation: both sigaction calls
\* with success and the assignment of m_initialized
Installers == {t \in Threads : arming[t].installs > 0}

\* C21: however the steps of two threads calling
\* SetupMainLoopExceptionFrame interleave, the handler installation (the
\* pair of sigaction calls) is executed by one thread only, and once: by
\* exactly one thread when the frame is initialized, by none before.
C21_InstallationByOneThread ==
    /\ Cardinality(Installers) <= 1
    /\ \A t \in Threads : arming[t].installs <= 1
    /\ fix_initialized => Cardinality(Installers) = 1

====
